---- MODULE Spec2Model ----
(***************************************************************************)
(* Campaign execution engine of BlackQuiet/server.                         *)
(*                                                                         *)
(* The repository holds two variants of class CampaignManager:             *)
(*   - src/unnamed/part_000: one recipient at a time, with a per-campaign  *)
(*     SMTP rotation (specification Spec);                                 *)
(*   - src/server.js: batches of ten parallel sends through one relay      *)
(*     (specification SpecBatch).                                          *)
(* Node.js runs one callback at a time: an action of this module is the    *)
(* code that runs between two suspensions of an async function (a pending  *)
(* verify(), sendMail() or setTimeout()), or one whole synchronous call.   *)
(* An await on an already settled promise only yields to the microtask     *)
(* queue, where no HTTP handler and no timer can run, so it does not end   *)
(* an action.                                                              *)
(***************************************************************************)
EXTENDS Integers, Sequences, FiniteSets, TLC

\* ------------------------------------------------------------- constants
maxConcurrentCampaigns == 3
\* 30 * 60000 ms and 2 * 60 * 60 * 1000 ms, in minutes
CooldownMin == 30
maxAge == 120
DefaultDailyLimit == 500
DefaultDelay == 5
DefaultMaxFailures == 3
RetryBatch == 5
batchSize == 10

\* ---------------------------------------------------------------- bounds
MaxCampaigns == 4
MaxRecipients == 3
MaxStops == 1
MaxTicks == 5

\* ----------------------------------------------------------------- values
AllRecipients == <<"a@x.io", "b@x.io", "c@x.io", "d@x.io", "e@x.io", "f@x.io">>
Terminated == "Campagne terminee"
NoTime == 0 - 1
Terminal == {"completed", "stopped", "error"}

\* error objects a verify() or a sendMail() can reject with
ErrTimeout == [code |-> "ETIMEDOUT", responseCode |-> 0]
ErrAuth == [code |-> "EAUTH", responseCode |-> 535]
\* every combination of an error code (or none) and an SMTP response code (or none)
ErrorCodes == {"", "ETIMEDOUT", "ECONNRESET", "ENOTFOUND", "EAUTH", "EENVELOPE"}
ResponseCodes == {0, 399, 400, 454, 499, 500, 535}
Errors == [code : ErrorCodes, responseCode : ResponseCodes]
\* how a verify() or a sendMail() settles: resolved, or rejected with an error
Resolved == [ok |-> TRUE, error |-> [code |-> "", responseCode |-> 0]]
Rejected(error) == [ok |-> FALSE, error |-> error]

\* relay descriptors of a submission: the fields the manager reads. NoLimit is a
\* dailyLimit that is not given; a responseTime that is not given reads as 0
\* (a.responseTime || 0).
NoLimit == 0 - 1
\* a delayBetweenEmails that is not given
NoDelay == 0 - 1
RelayWith(id, limit, responseTime) ==
  [id |-> id, dailyLimit |-> limit, responseTime |-> responseTime]

Relay(id, limit) == RelayWith(id, limit, 0)

VARIABLES
  campaigns,        \* this.campaigns: the set of keys of the Map
  record,           \* the campaign objects, by id (an executor keeps its object after cleanup)
  activeCampaigns,  \* this.activeCampaigns
  smtpRotation,     \* this.smtpRotation: id -> sequence of relay runtime states
  transporterPool,  \* this.transporterPool: the set of cached keys
  exec,             \* position of each processCampaign call: id -> [pc, i, server]
  now,              \* wall clock, in minutes
  ret,              \* the last call on the manager and what it returned
  limits,           \* input bounds of the exploration
  process           \* the Node process: "up", "closing" after a signal, "exited"

vars == <<campaigns, record, activeCampaigns, smtpRotation, transporterPool,
          exec, now, ret, limits, process>>

\* ------------------------------------------------------------ log lines
\* One pushed log line: its kind and the values the template prints.
Line(kind, n, m, to, via) == [kind |-> kind, n |-> n, m |-> m, to |-> to, via |-> via]

push(c, line) == [c EXCEPT !.logs = Append(@, line)]

\* --------------------------------------------------------- the validator
\* The characters of every address a submission of the model can carry.
Chars ==
  [s \in {"a@x.io", "b@x.io", "c@x.io", "d@x.io", "e@x.io", "f@x.io", "bad-email"} |->
     CASE s = "a@x.io" -> <<"a", "@", "x", ".", "i", "o">>
       [] s = "b@x.io" -> <<"b", "@", "x", ".", "i", "o">>
       [] s = "c@x.io" -> <<"c", "@", "x", ".", "i", "o">>
       [] s = "d@x.io" -> <<"d", "@", "x", ".", "i", "o">>
       [] s = "e@x.io" -> <<"e", "@", "x", ".", "i", "o">>
       [] s = "f@x.io" -> <<"f", "@", "x", ".", "i", "o">>
       [] OTHER -> <<"b", "a", "d", "-", "e", "m", "a", "i", "l">>]

\* [^\s@]
plainChar(ch) == ch \notin {" ", "@"}

\* /^[^\s@]+@[^\s@]+\.[^\s@]+$/.test(email)
emailPattern(email) ==
  LET w == Chars[email]
      plain(a, b) == a <= b /\ \A k \in a..b : plainChar(w[k])
  IN \E p \in 1..Len(w) : \E q \in 1..Len(w) :
       /\ w[p] = "@" /\ w[q] = "."
       /\ plain(1, p - 1) /\ plain(p + 1, q - 1) /\ plain(q + 1, Len(w))

\* The characters of every subject and content a submission of the model can carry.
Text ==
  [s \in {"", "  ", "Hello"} |->
     CASE s = "" -> <<>>
       [] s = "  " -> <<" ", " ">>
       [] OTHER -> <<"H", "e", "l", "l", "o">>]

\* String.prototype.trim on a sequence of characters
RECURSIVE trim(_)
trim(w) ==
  IF w = <<>> THEN w
  ELSE IF Head(w) = " " THEN trim(Tail(w))
  ELSE IF w[Len(w)] = " " THEN trim(SubSeq(w, 1, Len(w) - 1))
  ELSE w

\* !text || text.trim().length === 0; an absent text is ""
blank(text) == text = "" \/ Len(trim(Text[text])) = 0

\* A validator that looks at the first recipient only.
validateCampaignDataFirstOnly(data) ==
  /\ data.smtpServer # <<>>
  /\ Len(data.recipients) # 0
  /\ ~blank(data.subject)
  /\ ~blank(data.content)
  /\ emailPattern(data.recipients[1])

\* validateCampaignData(data).valid; an absent smtpServer is <<>>
validateCampaignData(data) ==
  /\ data.smtpServer # <<>>
  /\ Len(data.recipients) # 0
  /\ ~blank(data.subject)
  /\ ~blank(data.content)
  /\ \A k \in 1..Len(data.recipients) : emailPattern(data.recipients[k])

\* ---------------------------------------------------- the retry classifier
retryableCodes == {"ETIMEDOUT", "ECONNRESET", "ENOTFOUND"}

\* A classifier whose response-code range includes 500.
isRetryableErrorUpTo500(error) ==
  \/ error.code \in retryableCodes
  \/ (error.responseCode >= 400 /\ error.responseCode <= 500)

\* isRetryableError(error); an absent code is "", an absent responseCode is 0
\* (undefined is in no list and undefined >= 400 is false)
isRetryableError(error) ==
  \/ error.code \in retryableCodes
  \/ (error.responseCode >= 400 /\ error.responseCode < 500)

\* ---------------------------------------------------- the rotation tracker
\* The availableServers of processCampaign and the runtime state built from them.
availableServers(campaign) ==
  IF campaign.useSmtpRotation /\ Len(campaign.smtpServers) > 1
  THEN campaign.smtpServers
  ELSE campaign.smtpServer

newRotation(servers) ==
  [k \in 1..Len(servers) |->
     [id |-> servers[k].id, dailyLimit |-> servers[k].dailyLimit,
      responseTime |-> servers[k].responseTime, isActive |-> TRUE,
      failureCount |-> 0, sentCount |-> 0, lastFailure |-> NoTime]]

\* server.dailyLimit || 500: undefined and 0 are both falsy
dailyLimitOf(server) ==
  IF server.dailyLimit # NoLimit /\ server.dailyLimit # 0
  THEN server.dailyLimit ELSE DefaultDailyLimit

\* new Date() > cooldownEnd
cooldownOver(server, t) == t > server.lastFailure + CooldownMin

\* The comparator with the sentCount test left out.
compareServersNoSent(a, b) ==
  IF a.failureCount # b.failureCount THEN a.failureCount - b.failureCount
  ELSE a.responseTime - b.responseTime

\* The comparator handed to sort().
compareServers(a, b) ==
  IF a.failureCount # b.failureCount THEN a.failureCount - b.failureCount
  ELSE IF a.sentCount # b.sentCount THEN a.sentCount - b.sentCount
  ELSE a.responseTime - b.responseTime

\* Array.prototype.sort with compareServers, a stable sort, on a list of indices
\* into servers. insert puts k after every element of the sorted list that does
\* not compare greater than it.
RECURSIVE insert(_, _, _)
insert(servers, sorted, k) ==
  IF sorted = <<>> THEN <<k>>
  ELSE IF compareServers(servers[Head(sorted)], servers[k]) <= 0
       THEN <<Head(sorted)>> \o insert(servers, Tail(sorted), k)
       ELSE <<k>> \o sorted

RECURSIVE sort(_, _)
sort(servers, list) ==
  IF list = <<>> THEN <<>>
  ELSE insert(servers, sort(servers, SubSeq(list, 1, Len(list) - 1)), list[Len(list)])

\* The side effect of the filter callback: it reactivates a cooled-down server.
reactivated(servers, t) ==
  [k \in 1..Len(servers) |->
     IF ~servers[k].isActive /\ servers[k].lastFailure # NoTime /\ cooldownOver(servers[k], t)
     THEN [servers[k] EXCEPT !.isActive = TRUE, !.failureCount = 0]
     ELSE servers[k]]

\* What the filter callback returns for a server it has looked at.
kept(server) ==
  /\ ~(~server.isActive /\ server.lastFailure # NoTime)
  /\ ~(server.sentCount >= dailyLimitOf(server))

\* A selection that sorts rotation.servers itself, not the filtered copy.
getNextAvailableSMTPInPlace(servers, t) ==
  LET after == reactivated(servers, t)
      indices == [k \in 1..Len(servers) |-> k]
      activeServers == SelectSeq(indices, LAMBDA k : kept(after[k]))
      order == sort(after, activeServers) \o SelectSeq(indices, LAMBDA k : ~kept(after[k]))
  IN [servers |-> [k \in 1..Len(servers) |-> after[order[k]]],
      sel |-> IF activeServers = <<>> THEN 0 ELSE 1]

\* A selection that takes the first server the filter kept, without sorting.
getNextAvailableSMTPFirst(servers, t) ==
  LET after == reactivated(servers, t)
      activeServers == SelectSeq([k \in 1..Len(servers) |-> k], LAMBDA k : kept(after[k]))
  IN [servers |-> after,
      sel |-> IF activeServers = <<>> THEN 0 ELSE activeServers[1]]

\* getNextAvailableSMTP: the servers after the filter callback ran on each of them,
\* and the index of the selected one, 0 for null.
getNextAvailableSMTP(servers, t) ==
  LET after == reactivated(servers, t)
      \* the filtered copy: the indices of the servers kept, in list order
      activeServers == SelectSeq([k \in 1..Len(servers) |-> k], LAMBDA k : kept(after[k]))
  IN [servers |-> after,
      sel |-> IF activeServers = <<>> THEN 0 ELSE sort(after, activeServers)[1]]

\* rotation.servers.find(s => s.id === serverId), 0 when there is none
findServer(servers, serverId) ==
  IF \E k \in 1..Len(servers) : servers[k].id = serverId
  THEN CHOOSE k \in 1..Len(servers) :
         servers[k].id = serverId /\ \A j \in 1..(k - 1) : servers[j].id # serverId
  ELSE 0

\* campaign?.maxFailuresPerServer || 3; the campaign argument is <<>> when not passed
maxFailuresOf(campaign) ==
  IF campaign # <<>> /\ campaign[1].maxFailuresPerServer # 0
  THEN campaign[1].maxFailuresPerServer
  ELSE DefaultMaxFailures

markSMTPFailure(servers, serverId, campaign, t) ==
  LET k == findServer(servers, serverId) IN
  IF k = 0 THEN servers
  ELSE LET s == [servers[k] EXCEPT !.failureCount = @ + 1, !.lastFailure = t]
       IN [servers EXCEPT ![k] =
             IF s.failureCount >= maxFailuresOf(campaign)
             THEN [s EXCEPT !.isActive = FALSE] ELSE s]

\* A success mark that clears the failures.
markSMTPSuccessClearing(servers, serverId) ==
  LET k == findServer(servers, serverId) IN
  IF k = 0 THEN servers
  ELSE [servers EXCEPT ![k] = [@ EXCEPT !.sentCount = @ + 1, !.failureCount = 0]]

markSMTPSuccess(servers, serverId) ==
  LET k == findServer(servers, serverId) IN
  IF k = 0 THEN servers
  ELSE [servers EXCEPT ![k] =
          [@ EXCEPT !.sentCount = @ + 1,
                    !.failureCount = IF @ > 0 THEN (IF @ - 1 > 0 THEN @ - 1 ELSE 0) ELSE @]]

\* ------------------------------------------------ the executor (part_000)
\* A relay descriptor of the model carries one field, id, for its name, its id and
\* its host:port:username, so the cache key of a relay is its id.
transporterKey(server) == server.id

\* Operators on a context [c, rot, ex, active]: the campaign object, the servers of
\* its rotation, the position of its processCampaign call and this.activeCampaigns.
Pos(pc, i, server) == [pc |-> pc, i |-> i, server |-> server]

\* A finally block that leaves currentEmail at the last recipient.
finallyBlockKeepsRecipient(st) ==
  [st EXCEPT !.active = @ - 1, !.ex = Pos("done", 0, 0)]

\* A finally block that forgets the counter.
finallyBlockKeepsCount(st) ==
  [st EXCEPT !.c.currentEmail = Terminated, !.ex = Pos("done", 0, 0)]

\* finally { this.activeCampaigns--; campaign.currentEmail = 'Campagne terminée'; }
finallyBlock(st) ==
  [st EXCEPT !.active = @ - 1, !.c.currentEmail = Terminated, !.ex = Pos("done", 0, 0)]

\* A completion that does not look at the status.
stillRunningAssumed(c) == TRUE

\* if (campaign.status === 'running') campaign.status = 'completed'
stillRunning(c) == c.status = "running"

\* The code after the for loop: the retry pass, the completion, catch and finally.
\* `transporter` is declared by const inside the try block of the loop body, so the
\* call processRetryQueue(campaign, transporter) evaluates an undeclared name: it
\* throws ReferenceError before processRetryQueue runs, and the catch block runs.
afterLoop(st) ==
  LET c == st.c IN
  IF Len(c.retryQueue) > 0 /\ c.status = "running"
  THEN LET c1 == push(c, Line("retry", Len(c.retryQueue), 0, "", ""))
           c2 == push([c1 EXCEPT !.status = "error"], Line("fatal", 0, 0, "", ""))
       IN finallyBlock([st EXCEPT !.c = c2])
  ELSE LET c1 == IF stillRunning(c) THEN [c EXCEPT !.status = "completed"] ELSE c
           c2 == push(c1, Line("finished", c1.success, c1.failed, "", ""))
       IN finallyBlock([st EXCEPT !.c = c2])

\* A cache lookup that never hits.
cacheMiss(pool, server) == FALSE

\* if (this.transporterPool.has(key)) return this.transporterPool.get(key)
cacheHit(pool, server) == transporterKey(server) \in pool

\* A no-relay branch that logs and leaves the status as it is.
noServerLogged(c) == push(c, Line("noserver", 0, 0, "", ""))

\* if (!smtpServer) { campaign.logs.push(...); campaign.status = 'error'; break; }
noServer(c) == [push(c, Line("noserver", 0, 0, "", "")) EXCEPT !.status = "error"]

\* A loop head that does not look at the status.
notRunningIgnored(c) == FALSE

\* if (campaign.status !== 'running') break
notRunning(c) == c.status # "running"

\* The recipient after the one the loop index names.
recipientAtNext(c, i) == c.recipients[IF i < Len(c.recipients) THEN i + 1 ELSE i]

\* const recipient = campaign.recipients[i], with i counted from 1
recipientAt(c, i) == c.recipients[i]

\* The head of iteration i (1-based) up to the first pending promise: the status
\* check, the selection, and createTransporter up to its cache lookup. A cache hit
\* goes on into sendEmail, which suspends in transporter.sendMail().
loopHead(st, i, pool, t) ==
  LET c == st.c IN
  IF ~(i <= Len(c.recipients)) THEN afterLoop(st)
  ELSE IF notRunning(c) THEN afterLoop(st)
  ELSE LET c1 == [c EXCEPT !.currentEmail = recipientAt(c, i)]
           g == getNextAvailableSMTP(st.rot, t)
       IN IF g.sel = 0
          THEN afterLoop([st EXCEPT !.c = noServer(c1), !.rot = g.servers])
          ELSE [st EXCEPT
                 !.c = push(c1, Line("sending", i, Len(c.recipients), c.recipients[i],
                                     g.servers[g.sel].id)),
                 !.rot = g.servers,
                 !.ex = Pos(IF cacheHit(pool, g.servers[g.sel])
                            THEN "send" ELSE "verify", i, g.sel)]

\* campaign.delayBetweenEmails || 5, in seconds: undefined and 0 are both falsy
delayOf(c) ==
  IF c.delayBetweenEmails # NoDelay /\ c.delayBetweenEmails # 0
  THEN c.delayBetweenEmails ELSE DefaultDelay

\* The end of iteration i: the pacing delay, or straight on to the next loop head.
\* (speed, remaining and estimatedTime are recomputed by the status route and are
\* not part of the model.)
afterIteration(st, pool, t) ==
  LET c == st.c
      i == st.ex.i
  IN IF i < Len(c.recipients) /\ c.status = "running"
     THEN [st EXCEPT !.c = push(c, Line("delay", delayOf(c), 0, "", "")), !.ex.pc = "delay"]
     ELSE loopHead(st, i + 1, pool, t)

\* A success path that does not count the success.
sendSucceededUncounted(st) ==
  LET c == [st.c EXCEPT !.sent = @ + 1]
      server == st.rot[st.ex.server]
  IN [st EXCEPT
        !.rot = markSMTPSuccess(st.rot, server.id),
        !.c = push(c, Line("ok", c.sent, Len(c.recipients), c.recipients[st.ex.i], ""))]

\* The success path of the loop body, after sendEmail returned.
sendSucceeded(st) ==
  LET c == [st.c EXCEPT !.sent = @ + 1, !.success = @ + 1]
      server == st.rot[st.ex.server]
  IN [st EXCEPT
        !.rot = markSMTPSuccess(st.rot, server.id),
        !.c = push(c, Line("ok", c.sent, Len(c.recipients), c.recipients[st.ex.i], ""))]

\* A catch block of the loop body that does not tell the tracker.
iterationFailedUnmarked(st, error, t) ==
  LET c == [st.c EXCEPT !.sent = @ + 1, !.failed = @ + 1]
      server == st.rot[st.ex.server]
      rcpt == c.recipients[st.ex.i]
      c1 == [c EXCEPT !.errors = Append(@, [email |-> rcpt, error |-> error,
                                            smtp |-> server.id])]
  IN [st EXCEPT !.c = push(c1, Line("failed", c.sent, Len(c.recipients), rcpt, ""))]

\* The catch block of the loop body; markSMTPFailure is called without a campaign.
\* The error record holds error.message, which stands for the error it is read from.
iterationFailed(st, error, t) ==
  LET c == [st.c EXCEPT !.sent = @ + 1, !.failed = @ + 1]
      server == st.rot[st.ex.server]
      rcpt == c.recipients[st.ex.i]
      c1 == [c EXCEPT !.errors = Append(@, [email |-> rcpt, error |-> error,
                                            smtp |-> server.id])]
  IN [st EXCEPT
        !.rot = markSMTPFailure(st.rot, server.id, <<>>, t),
        !.c = push(c1, Line("failed", c.sent, Len(c.recipients), rcpt, ""))]

\* The mailOptions sendEmail builds. sendEmail(campaign, transporter, recipient) has
\* three parameters; the relay that processCampaign passes as a fourth argument is
\* dropped, and the sender and the reply address are read from campaign.smtpServer
\* (no customReplyTo and no replyTo are submitted, so replyTo is the username).
mailOptions(campaign, recipient) ==
  [from |-> campaign.smtpServer[1].id, to |-> recipient,
   replyTo |-> campaign.smtpServer[1].id]

\* A catch block of sendEmail that queues the recipient whatever the error is.
sendEmailFailedAlways(c, recipient, error) ==
  [c EXCEPT !.retryQueue = Append(@, recipient)]

\* The catch block of sendEmail, which rethrows into the catch block of the loop body.
sendEmailFailed(c, recipient, error) ==
  IF isRetryableError(error) THEN [c EXCEPT !.retryQueue = Append(@, recipient)] ELSE c

\* The context of campaign id in the current state, and its write-back.
Ctx(id) == [c |-> record[id], rot |-> smtpRotation[id], ex |-> exec[id],
            active |-> activeCampaigns]

\* A write-back into one tracker that all campaigns share.
StoreShared(id, st) ==
  /\ record' = [record EXCEPT ![id] = st.c]
  /\ smtpRotation' = [k \in DOMAIN smtpRotation |-> st.rot]
  /\ exec' = [exec EXCEPT ![id] = st.ex]
  /\ activeCampaigns' = st.active

Store(id, st) ==
  /\ record' = [record EXCEPT ![id] = st.c]
  /\ smtpRotation' = [smtpRotation EXCEPT ![id] = st.rot]
  /\ exec' = [exec EXCEPT ![id] = st.ex]
  /\ activeCampaigns' = st.active

Ids == DOMAIN record

\* --------------------------------------------------------------- inputs
Data(recipients, smtpServer, smtpServers, rotate) ==
  [recipients |-> recipients, smtpServer |-> smtpServer, smtpServers |-> smtpServers,
   useSmtpRotation |-> rotate, maxFailuresPerServer |-> 0,
   delayBetweenEmails |-> NoDelay, subject |-> "Hello", content |-> "Hello"]

\* A list of n addresses (addresses repeat in a list longer than AllRecipients).
recipientList(n) == [k \in 1..n |-> AllRecipients[((k - 1) % Len(AllRecipients)) + 1]]

\* The request bodies POST /api/campaign/start receives in the exploration.
Submissions ==
  { [Data(recipientList(n), u.smtpServer, u.smtpServers, u.rotate)
       EXCEPT !.maxFailuresPerServer = limits.maxFailures, !.delayBetweenEmails = d] :
      n \in limits.recipients, u \in limits.setups, d \in limits.delays }
  \cup limits.invalid

\* ret: the call on the manager made by the last step, and what it returned.
\* ok is the value the manager returned (stopCampaign) or whether it returned an id
\* (startCampaign); http is the status code of the route's response.
Ret(op, id, ok, http) == [op |-> op, id |-> id, ok |-> ok, http |-> http]
NoCall == Ret("none", 0, FALSE, 0)

\* -------------------------------------------------------------- actions
\* The capacity test with > for >=.
limitReachedLate(active) == active > maxConcurrentCampaigns

\* if (this.activeCampaigns >= this.maxConcurrentCampaigns) throw
limitReached(active) == active >= maxConcurrentCampaigns

\* The campaign object startCampaign builds.
newCampaign(data, t) ==
  [recipients |-> data.recipients, smtpServer |-> data.smtpServer,
   smtpServers |-> data.smtpServers, useSmtpRotation |-> data.useSmtpRotation,
   maxFailuresPerServer |-> data.maxFailuresPerServer,
   delayBetweenEmails |-> data.delayBetweenEmails,
   status |-> "running", sent |-> 0, success |-> 0, failed |-> 0,
   logs |-> <<>>, errors |-> <<>>, startTime |-> t, currentEmail |-> "",
   retryQueue |-> <<>>]

\* processCampaign from its entry to its first pending promise.
processCampaign(campaign, active, pool, t) ==
  LET servers == availableServers(campaign)
      c1 == push(campaign, Line("start", Len(campaign.recipients), 0, "", ""))
      c2 == push(c1, Line("servers", Len(servers), 0, "", ""))
      c3 == IF campaign.useSmtpRotation THEN push(c2, Line("rotation", 0, 0, "", "")) ELSE c2
  IN loopHead([c |-> c3, rot |-> newRotation(servers), ex |-> Pos("start", 0, 0),
               active |-> active], 1, pool, t)

\* POST /api/campaign/start: the validator, startCampaign, and the part of
\* processCampaign that runs inside the call.
StartCampaign(data) ==
  /\ process # "exited"
  /\ IF ~validateCampaignData(data) \/ limitReached(activeCampaigns)
     THEN /\ ret' = Ret("start", 0, FALSE, IF ~validateCampaignData(data) THEN 400 ELSE 500)
          /\ UNCHANGED <<campaigns, record, activeCampaigns, smtpRotation,
                         transporterPool, exec, now, limits, process>>
     ELSE /\ Cardinality(Ids) < limits.campaigns
          /\ LET id == Cardinality(Ids) + 1
                 st == processCampaign(newCampaign(data, now), activeCampaigns + 1,
                                       transporterPool, now)
             IN /\ campaigns' = campaigns \cup {id}
                /\ record' = (id :> st.c) @@ record
                /\ smtpRotation' = (id :> st.rot) @@ smtpRotation
                /\ exec' = (id :> st.ex) @@ exec
                /\ activeCampaigns' = st.active
                /\ ret' = Ret("start", id, TRUE, 200)
          /\ UNCHANGED <<transporterPool, now, limits, process>>

\* await transporter.verify() of createTransporter settles.
VerifyDone(id, outcome) ==
  /\ process # "exited"
  /\ exec[id].pc = "verify"
  /\ LET st == Ctx(id) IN
     IF outcome.ok
     THEN /\ transporterPool' = transporterPool \cup {transporterKey(st.rot[st.ex.server])}
          /\ Store(id, [st EXCEPT !.ex.pc = "send"])
     ELSE /\ Store(id, afterIteration(iterationFailed(st, outcome.error, now),
                                      transporterPool, now))
          /\ UNCHANGED transporterPool
  /\ ret' = NoCall
  /\ UNCHANGED <<campaigns, now, limits, process>>

\* await transporter.sendMail() of sendEmail settles.
SendDone(id, outcome) ==
  /\ process # "exited"
  /\ exec[id].pc = "send"
  /\ LET st == Ctx(id) IN
     IF outcome.ok
     THEN Store(id, afterIteration(sendSucceeded(st), transporterPool, now))
     ELSE LET c1 == sendEmailFailed(st.c, st.c.recipients[st.ex.i], outcome.error)
          IN Store(id, afterIteration(iterationFailed([st EXCEPT !.c = c1], outcome.error,
                                                      now), transporterPool, now))
  /\ ret' = NoCall
  /\ UNCHANGED <<campaigns, transporterPool, now, limits, process>>

\* The setTimeout of the pacing delay fires.
DelayDone(id) ==
  /\ process # "exited"
  /\ exec[id].pc = "delay"
  /\ Store(id, loopHead(Ctx(id), exec[id].i + 1, transporterPool, now))
  /\ ret' = NoCall
  /\ UNCHANGED <<campaigns, transporterPool, now, limits, process>>

\* A stop that starts the counters over.
stopCampaignResetting(campaign) ==
  push([campaign EXCEPT !.status = "stopped", !.sent = 0, !.success = 0, !.failed = 0],
       Line("stopped", 0, 0, "", ""))

\* stopCampaign(id): the object after the call.
stopCampaign(campaign) ==
  push([campaign EXCEPT !.status = "stopped"], Line("stopped", 0, 0, "", ""))

Stops(campaign) == Cardinality({k \in 1..Len(campaign.logs) : campaign.logs[k].kind = "stopped"})

\* POST /api/campaign/:id/stop
StopCampaign(id) ==
  /\ process # "exited"
  /\ IF id \in campaigns
     THEN /\ Stops(record[id]) < MaxStops
          /\ record' = [record EXCEPT ![id] = stopCampaign(@)]
          /\ ret' = Ret("stop", id, TRUE, 200)
     ELSE /\ ret' = Ret("stop", id, FALSE, 404)
          /\ UNCHANGED record
  /\ UNCHANGED <<campaigns, activeCampaigns, smtpRotation, transporterPool, exec, now, limits, process>>

\* A cleanup that deletes from the age of maxAge on.
cleanupAtAge(t) ==
  {id \in campaigns : t - record[id].startTime >= maxAge /\ record[id].status \in Terminal}

\* cleanup(): the keys it deletes.
cleanup(t) ==
  {id \in campaigns : t - record[id].startTime > maxAge /\ record[id].status \in Terminal}

\* The hourly setInterval callback.
Cleanup ==
  /\ process # "exited"
  /\ campaigns' = campaigns \ cleanup(now)
  /\ ret' = NoCall
  /\ UNCHANGED <<record, activeCampaigns, smtpRotation, transporterPool, exec, now, limits, process>>

\* Time passes.
Tick ==
  /\ process # "exited"
  /\ now + CooldownMin <= limits.ticks * CooldownMin
  /\ now' = now + CooldownMin
  /\ ret' = NoCall
  /\ UNCHANGED <<campaigns, record, activeCampaigns, smtpRotation, transporterPool,
                 exec, limits, process>>

\* gracefulShutdown(signal): what the handler does to the campaign objects. It calls
\* server.close() and arms the 30 s timer; it does not touch the manager.
gracefulShutdown(rec) == rec

\* SIGTERM or SIGINT arrives. server.close() refuses new connections; requests on
\* connections that are already open are still served, and pending promises and
\* timers still run, until the process exits.
GracefulShutdown ==
  /\ limits.shutdown
  /\ process = "up"
  /\ process' = "closing"
  /\ record' = gracefulShutdown(record)
  /\ ret' = NoCall
  /\ UNCHANGED <<campaigns, activeCampaigns, smtpRotation, transporterPool, exec, now,
                 limits>>

\* process.exit(): in the callback of server.close(), after the cached transporters
\* were closed, or in the 30 s timer.
Exit ==
  /\ process = "closing"
  /\ process' = "exited"
  /\ ret' = NoCall
  /\ UNCHANGED <<campaigns, record, activeCampaigns, smtpRotation, transporterPool, exec,
                 now, limits>>

\* ------------------------------------------------ the executor (server.js)
\* server.js sends the recipients in batches of batchSize parallel sendEmail calls
\* through the one transporter of campaign.smtpServer. Its createTransporter calls
\* nodemailer.createTransporter (lines 158 and 563), a member of a library that is
\* not part of the sources. The set-up therefore has two outcomes: the factory
\* returns a transport and verify() resolves, or the try block of createTransporter
\* throws (the member is missing, or verify() rejects) and processCampaign lands in
\* its catch block.
Pending == [ok |-> FALSE, error |-> [code |-> "pending", responseCode |-> 0]]

BPos(pc, i, results, retry) == [pc |-> pc, i |-> i, results |-> results, retry |-> retry]

chunkArray(array, size) ==
  [b \in 1..((Len(array) + size - 1) \div size) |->
     SubSeq(array, (b - 1) * size + 1, IF b * size < Len(array) THEN b * size ELSE Len(array))]

batchFinally(st) ==
  [st EXCEPT !.active = @ - 1, !.c.currentEmail = Terminated,
             !.ex = BPos("done", 0, <<>>, <<>>)]

\* if (campaign.status === 'running') campaign.status = 'completed'; the summary; finally
batchComplete(st) ==
  LET c == st.c
      c1 == IF c.status = "running" THEN [c EXCEPT !.status = "completed"] ELSE c
  IN batchFinally([st EXCEPT !.c = push(c1, Line("finished", c1.success, c1.failed, "", ""))])

\* The head of the for loop of processRetryQueue over what is left of retryBatch.
retryHead(st) ==
  IF st.ex.retry = <<>> \/ st.c.status # "running"
  THEN batchComplete(st)
  ELSE [st EXCEPT !.ex.pc = "retry"]

\* The code after the batch loop; processRetryQueue starts with splice(0, 5).
batchAfterLoop(st) ==
  LET c == st.c
      q == c.retryQueue
      taken == IF Len(q) < RetryBatch THEN Len(q) ELSE RetryBatch
  IN IF Len(q) > 0 /\ c.status = "running"
     THEN retryHead([st EXCEPT
            !.c = [push(c, Line("retry", Len(q), 0, "", "")) EXCEPT
                     !.retryQueue = SubSeq(q, taken + 1, Len(q))],
            !.ex = BPos("retry", 0, <<>>, SubSeq(q, 1, taken))])
     ELSE batchComplete(st)

\* The head of the batch loop: batch b (1-based) starts all its sendEmail calls.
batchLoopHead(st, b) ==
  LET batches == chunkArray(st.c.recipients, batchSize) IN
  IF ~(b <= Len(batches)) THEN batchAfterLoop(st)
  ELSE IF st.c.status # "running" THEN batchAfterLoop(st)
  ELSE [st EXCEPT !.ex = BPos("batch", b, [k \in 1..Len(batches[b]) |-> Pending], <<>>)]

\* results.forEach(...) from index k on
RECURSIVE forEachResult(_, _, _, _)
forEachResult(c, batch, results, k) ==
  IF k > Len(batch) THEN c
  ELSE LET c1 == [c EXCEPT !.sent = @ + 1]
           c2 == IF results[k].ok
                 THEN push([c1 EXCEPT !.success = @ + 1],
                           Line("ok", c1.sent, Len(c.recipients), batch[k], ""))
                 ELSE push([c1 EXCEPT !.failed = @ + 1,
                                      !.errors = Append(@, [email |-> batch[k],
                                                            error |-> results[k].error,
                                                            smtp |-> c.smtpServer[1].id])],
                           Line("failed", c1.sent, Len(c.recipients), batch[k], ""))
       IN forEachResult(c2, batch, results, k + 1)

\* Promise.allSettled of batch b resolved: the counters, then the delay or the next batch.
batchSettled(st) ==
  LET batches == chunkArray(st.c.recipients, batchSize)
      b == st.ex.i
      c1 == forEachResult(st.c, batches[b], st.ex.results, 1)
  IN IF b < Len(batches) /\ c1.status = "running"
     THEN [st EXCEPT !.c = c1, !.ex = BPos("delay", b, <<>>, <<>>)]
     ELSE batchLoopHead([st EXCEPT !.c = c1], b + 1)

\* processCampaign of server.js once createTransporter has returned
batchStart(st) ==
  LET c1 == push(st.c, Line("start", Len(st.c.recipients), 0, "", ""))
      c2 == push(c1, Line("smtp", 0, 0, "", st.c.smtpServer[1].id))
  IN batchLoopHead([st EXCEPT !.c = c2], 1)

\* processCampaign of server.js from its entry to its first pending promise
processCampaignBatch(campaign, active, pool) ==
  LET st == [c |-> campaign, rot |-> <<>>, ex |-> BPos("setup", 0, <<>>, <<>>),
             active |-> active]
  IN IF transporterKey(campaign.smtpServer[1]) \in pool THEN batchStart(st) ELSE st

\* POST /api/campaign/start of server.js
StartCampaignBatch(data) ==
  /\ process # "exited"
  /\ IF ~validateCampaignData(data) \/ limitReached(activeCampaigns)
     THEN /\ ret' = Ret("start", 0, FALSE, IF ~validateCampaignData(data) THEN 400 ELSE 500)
          /\ UNCHANGED <<campaigns, record, activeCampaigns, smtpRotation,
                         transporterPool, exec, now, limits, process>>
     ELSE /\ Cardinality(Ids) < limits.campaigns
          /\ LET id == Cardinality(Ids) + 1
                 st == processCampaignBatch(newCampaign(data, now), activeCampaigns + 1,
                                            transporterPool)
             IN /\ campaigns' = campaigns \cup {id}
                /\ record' = (id :> st.c) @@ record
                /\ smtpRotation' = (id :> st.rot) @@ smtpRotation
                /\ exec' = (id :> st.ex) @@ exec
                /\ activeCampaigns' = st.active
                /\ ret' = Ret("start", id, TRUE, 200)
          /\ UNCHANGED <<transporterPool, now, limits, process>>

\* await transporter.verify() of createTransporter settles; a rejection lands in
\* the catch block of processCampaign.
SetupDone(id, outcome) ==
  /\ process # "exited"
  /\ exec[id].pc = "setup"
  /\ LET st == Ctx(id) IN
     IF outcome.ok
     THEN /\ transporterPool' = transporterPool \cup {transporterKey(st.c.smtpServer[1])}
          /\ Store(id, batchStart(st))
     ELSE /\ Store(id, batchFinally([st EXCEPT
                 !.c = push([st.c EXCEPT !.status = "error"], Line("fatal", 0, 0, "", ""))]))
          /\ UNCHANGED transporterPool
  /\ ret' = NoCall
  /\ UNCHANGED <<campaigns, now, limits, process>>

\* sendMail() of the k-th sendEmail call of the current batch settles.
BatchSendDone(id, k, outcome) ==
  /\ process # "exited"
  /\ exec[id].pc = "batch"
  /\ k \in DOMAIN exec[id].results
  /\ exec[id].results[k] = Pending
  /\ LET st == Ctx(id)
         batch == chunkArray(st.c.recipients, batchSize)[st.ex.i]
         c1 == IF outcome.ok THEN st.c ELSE sendEmailFailed(st.c, batch[k], outcome.error)
         st1 == [st EXCEPT !.c = c1, !.ex.results[k] = outcome]
     IN IF \A j \in DOMAIN st1.ex.results : st1.ex.results[j] # Pending
        THEN Store(id, batchSettled(st1))
        ELSE Store(id, st1)
  /\ ret' = NoCall
  /\ UNCHANGED <<campaigns, transporterPool, now, limits, process>>

\* The setTimeout between two batches fires.
BatchDelayDone(id) ==
  /\ process # "exited"
  /\ exec[id].pc = "delay"
  /\ Store(id, batchLoopHead(Ctx(id), exec[id].i + 1))
  /\ ret' = NoCall
  /\ UNCHANGED <<campaigns, transporterPool, now, limits, process>>

\* The body of the loop of processRetryQueue, after sendEmail settled.
retried(c, recipient, outcome) ==
  IF outcome.ok
  THEN push([c EXCEPT !.success = @ + 1], Line("retryok", 0, 0, recipient, ""))
  ELSE push([sendEmailFailed(c, recipient, outcome.error) EXCEPT !.failed = @ + 1],
            Line("retryfailed", 0, 0, recipient, ""))

\* sendMail() of a retry settles; the 2 s setTimeout is then pending.
RetryDone(id, outcome) ==
  /\ process # "exited"
  /\ exec[id].pc = "retry"
  /\ LET st == Ctx(id) IN
     Store(id, [st EXCEPT !.c = retried(st.c, Head(st.ex.retry), outcome),
                          !.ex.pc = "retryDelay"])
  /\ ret' = NoCall
  /\ UNCHANGED <<campaigns, transporterPool, now, limits, process>>

\* The 2 s setTimeout of processRetryQueue fires.
RetryDelayDone(id) ==
  /\ process # "exited"
  /\ exec[id].pc = "retryDelay"
  /\ LET st == Ctx(id) IN Store(id, retryHead([st EXCEPT !.ex.retry = Tail(@)]))
  /\ ret' = NoCall
  /\ UNCHANGED <<campaigns, transporterPool, now, limits, process>>

\* ----------------------------------------------------------- specification
Empty == [x \in {} |-> 0]

InitWith(l) ==
  /\ campaigns = {}
  /\ record = Empty
  /\ activeCampaigns = 0
  /\ smtpRotation = Empty
  /\ transporterPool = {}
  /\ exec = Empty
  /\ now = 0
  /\ ret = NoCall
  /\ limits = l
  /\ process = "up"

RelayA == Relay("A", NoLimit)
RelayB == Relay("B", NoLimit)
Single(r) == [smtpServer |-> <<r>>, smtpServers |-> <<>>, rotate |-> FALSE]

Rotating(list) == [smtpServer |-> <<list[1]>>, smtpServers |-> list, rotate |-> TRUE]
BadAddress == Data(<<"bad-email", "a@x.io">>, <<RelayA>>, <<>>, FALSE)
BadLastAddress == Data(<<"a@x.io", "bad-email">>, <<RelayA>>, <<>>, FALSE)
NoRecipients == Data(<<>>, <<RelayA>>, <<>>, FALSE)
BlankSubject == [Data(<<"a@x.io">>, <<RelayA>>, <<>>, FALSE) EXCEPT !.subject = "  "]
NoContent == [Data(<<"a@x.io">>, <<RelayA>>, <<>>, FALSE) EXCEPT !.content = ""]
\* a rotation submission that names its relays in smtpServers only
RotationOnly == Data(<<"a@x.io">>, <<>>, <<RelayA, RelayB>>, TRUE)
\* a rotation submission whose smtpServers list has one element
RotatingOne == [smtpServer |-> <<RelayA>>, smtpServers |-> <<RelayB>>, rotate |-> TRUE]

\* The exploration has one region per set of input bounds.
\* Registry: up to MaxCampaigns campaigns of one recipient on one relay.
RegistryLimits ==
  [campaigns |-> MaxCampaigns, recipients |-> {1}, setups |-> {Single(RelayA)},
   invalid |-> {BadAddress, BadLastAddress, NoRecipients, BlankSubject, NoContent,
                RotationOnly},
   sendOutcomes |-> {Resolved, Rejected(ErrTimeout)}, verifyOutcomes |-> {Resolved},
   ticks |-> 0, maxFailures |-> 0, shutdown |-> FALSE, delays |-> {NoDelay}]

\* Executor: one campaign of up to MaxRecipients recipients, one relay or a rotation
\* over two, every outcome of verify() and sendMail().
ExecutorLimits ==
  [campaigns |-> 1, recipients |-> 1..MaxRecipients,
   setups |-> {Single(RelayA), Single(Relay("A", 1)), Single(Relay("A", 0)),
               Rotating(<<RelayA, RelayB>>)},
   invalid |-> {},
   sendOutcomes |-> {Resolved, Rejected(ErrTimeout), Rejected(ErrAuth)},
   verifyOutcomes |-> {Resolved, Rejected(ErrTimeout), Rejected(ErrAuth)},
   ticks |-> 0, maxFailures |-> 0, shutdown |-> FALSE, delays |-> {NoDelay}]

\* Clock: one campaign on one relay while the clock advances in steps of 30 minutes.
ClockLimits ==
  [campaigns |-> 1, recipients |-> {1}, setups |-> {Single(RelayA)},
   invalid |-> {},
   sendOutcomes |-> {Resolved, Rejected(ErrAuth)}, verifyOutcomes |-> {Resolved},
   ticks |-> MaxTicks, maxFailures |-> 0, shutdown |-> FALSE, delays |-> {NoDelay}]

\* Rotation: one campaign of MaxRecipients recipients over two relays that differ in
\* responseTime or of which one has a daily limit of 1, or with a rotation list of
\* one relay, submitted with maxFailuresPerServer = 2.
RelaySlow == RelayWith("A", NoLimit, 20)
RelayFast == RelayWith("B", NoLimit, 10)
RelayCapped == RelayWith("A", 1, 10)
RotationLimits ==
  [campaigns |-> 1, recipients |-> {MaxRecipients},
   setups |-> {Rotating(<<RelaySlow, RelayFast>>), Rotating(<<RelayCapped, RelayB>>),
               RotatingOne},
   invalid |-> {},
   sendOutcomes |-> {Resolved, Rejected(ErrAuth)}, verifyOutcomes |-> {Resolved},
   ticks |-> 0, maxFailures |-> 2, shutdown |-> FALSE, delays |-> {NoDelay}]

\* Cooldown: one campaign on one relay, with one recipient more than the failures
\* that deactivate the relay, while the clock advances in steps of 30 minutes.
CooldownLimits ==
  [campaigns |-> 1, recipients |-> {DefaultMaxFailures + 1}, setups |-> {Single(RelayA)},
   invalid |-> {},
   sendOutcomes |-> {Resolved, Rejected(ErrAuth)}, verifyOutcomes |-> {Resolved},
   ticks |-> 2, maxFailures |-> 0, shutdown |-> FALSE, delays |-> {NoDelay}]

\* Shutdown: one campaign of two recipients on one relay, and a termination signal.
ShutdownLimits ==
  [campaigns |-> 1, recipients |-> {2}, setups |-> {Single(RelayA)},
   invalid |-> {},
   sendOutcomes |-> {Resolved, Rejected(ErrAuth)}, verifyOutcomes |-> {Resolved},
   ticks |-> 0, maxFailures |-> 0, shutdown |-> TRUE, delays |-> {NoDelay}]

\* Classifier: one campaign of two recipients on one relay, a sendMail() that
\* rejects with every error of Errors, and a verify() that rejects with a timeout
\* or an authentication error.
ClassifierLimits ==
  [campaigns |-> 1, recipients |-> {2}, setups |-> {Single(RelayA)},
   invalid |-> {},
   sendOutcomes |-> {Resolved} \cup {Rejected(e) : e \in Errors},
   verifyOutcomes |-> {Resolved, Rejected(ErrTimeout), Rejected(ErrAuth)},
   ticks |-> 0, maxFailures |-> 0, shutdown |-> FALSE, delays |-> {NoDelay}]

\* Pacing: one campaign of two recipients on one relay, submitted without a delay,
\* with a delay of 0 and with a delay of 2 seconds.
PacingLimits ==
  [campaigns |-> 1, recipients |-> {2}, setups |-> {Single(RelayA)},
   invalid |-> {},
   sendOutcomes |-> {Resolved, Rejected(ErrAuth)}, verifyOutcomes |-> {Resolved},
   ticks |-> 0, maxFailures |-> 0, shutdown |-> FALSE, delays |-> {NoDelay, 0, 2}]

Init ==
  \E l \in {RegistryLimits, ExecutorLimits, ClockLimits, RotationLimits, CooldownLimits,
            ShutdownLimits, ClassifierLimits, PacingLimits} :
    InitWith(l)

Next ==
  \/ \E data \in Submissions : StartCampaign(data)
  \/ \E id \in Ids : \E outcome \in limits.verifyOutcomes : VerifyDone(id, outcome)
  \/ \E id \in Ids : \E outcome \in limits.sendOutcomes : SendDone(id, outcome)
  \/ \E id \in Ids : DelayDone(id)
  \/ \E id \in 1..limits.campaigns : StopCampaign(id)
  \/ Cleanup
  \/ Tick
  \/ GracefulShutdown
  \/ Exit

Spec == Init /\ [][Next]_vars

\* The manager while the process stays up, with the scheduling Node gives it: a
\* promise that is pending settles and a timer that is armed fires.
\* Two campaigns of two recipients on the same relay, every outcome of verify() and
\* sendMail().
PairLimits ==
  [campaigns |-> 2, recipients |-> {2}, setups |-> {Single(RelayA)},
   invalid |-> {},
   sendOutcomes |-> {Resolved, Rejected(ErrTimeout), Rejected(ErrAuth)},
   verifyOutcomes |-> {Resolved, Rejected(ErrAuth)},
   ticks |-> 0, maxFailures |-> 0, shutdown |-> FALSE, delays |-> {NoDelay}]

InitLive ==
  \E l \in {PairLimits, ExecutorLimits, ClockLimits, PacingLimits} : InitWith(l)

NextLive ==
  \/ \E data \in Submissions : StartCampaign(data)
  \/ \E id \in Ids : \E outcome \in limits.verifyOutcomes : VerifyDone(id, outcome)
  \/ \E id \in Ids : \E outcome \in limits.sendOutcomes : SendDone(id, outcome)
  \/ \E id \in Ids : DelayDone(id)
  \/ \E id \in 1..limits.campaigns : StopCampaign(id)
  \/ Cleanup
  \/ Tick

Settles(id) ==
  \/ \E outcome \in limits.verifyOutcomes : VerifyDone(id, outcome)
  \/ \E outcome \in limits.sendOutcomes : SendDone(id, outcome)
  \/ DelayDone(id)

SpecLive == InitLive /\ [][NextLive]_vars /\ WF_vars(\E id \in Ids : Settles(id))

\* server.js: one campaign of one or two recipients with every outcome, or of
\* batchSize + 1 recipients (two batches) whose sends all succeed.
BatchLimits ==
  [campaigns |-> 1, recipients |-> {1, 2}, setups |-> {Single(RelayA)},
   invalid |-> {},
   sendOutcomes |-> {Resolved, Rejected(ErrTimeout), Rejected(ErrAuth)},
   verifyOutcomes |-> {Resolved, Rejected(ErrAuth)},
   ticks |-> 0, maxFailures |-> 0, shutdown |-> FALSE, delays |-> {NoDelay}]

TwoBatchLimits ==
  [campaigns |-> 1, recipients |-> {batchSize + 1}, setups |-> {Single(RelayA)},
   invalid |-> {},
   sendOutcomes |-> {Resolved}, verifyOutcomes |-> {Resolved},
   ticks |-> 1, maxFailures |-> 0, shutdown |-> FALSE, delays |-> {NoDelay}]

InitBatch == \E l \in {BatchLimits, TwoBatchLimits} : InitWith(l)

NextBatch ==
  \/ \E data \in Submissions : StartCampaignBatch(data)
  \/ \E id \in Ids : \E outcome \in limits.verifyOutcomes : SetupDone(id, outcome)
  \/ \E id \in Ids : \E k \in 1..batchSize : \E outcome \in limits.sendOutcomes :
       BatchSendDone(id, k, outcome)
  \/ \E id \in Ids : BatchDelayDone(id)
  \/ \E id \in Ids : \E outcome \in limits.sendOutcomes : RetryDone(id, outcome)
  \/ \E id \in Ids : RetryDelayDone(id)
  \/ \E id \in 1..limits.campaigns : StopCampaign(id)
  \/ Cleanup
  \/ Tick

SpecBatch == InitBatch /\ [][NextBatch]_vars


\* ------------------------------------------------------------------ claims
Running == {id \in campaigns : record[id].status = "running"}
Alive == {id \in Ids : exec[id].pc # "done"}

\* C1: once the status of a campaign is completed, stopped or error, no step
\* (executor step, stop, cleanup) changes it to another value.
C1_TerminalAbsorbing ==
  [][\A id \in Ids : record[id].status \in Terminal
                       => record'[id].status = record[id].status]_vars

\* C2: stop(id) on a campaign that is completed, stopped or error returns false and
\* leaves the record as it is; stop(id) returns true only if the call moved the
\* status from running to stopped.
C2_StopTerminalIsNoOp ==
  [][(ret'.op = "stop" /\ ret'.id \in campaigns)
       => /\ record[ret'.id].status \in Terminal => (~ret'.ok /\ record' = record)
          /\ ret'.ok => (record[ret'.id].status = "running"
                         /\ record'[ret'.id].status = "stopped")]_vars

\* C3: the active-campaign counter equals the number of records whose status is
\* running, in every reachable state.
C3_ActiveIsRunning == activeCampaigns = Cardinality(Running)

\* C4: a submission made while 3 campaigns are running fails: no record is
\* inserted, no executor is started and the counter keeps its value.
C4_FourthRejected ==
  [][(ret'.op = "start" /\ Cardinality(Running) >= maxConcurrentCampaigns)
       => /\ ~ret'.ok
          /\ UNCHANGED <<campaigns, record, exec, smtpRotation, activeCampaigns>>]_vars

\* A valid submission was just refused while exactly 3 campaigns were running.
C4_Witness ==
  /\ ret = Ret("start", 0, FALSE, 500)
  /\ Cardinality(Running) = maxConcurrentCampaigns

\* C5: a valid submission made while fewer than 3 campaigns are running is
\* admitted: an id is returned and a record exists.
C5_AdmittedBelowLimit ==
  [][(ret'.op = "start" /\ ret'.http # 400 /\ Cardinality(Running) < maxConcurrentCampaigns)
       => (ret'.ok /\ ret'.id \in campaigns')]_vars

\* C6: the counter stays within 0..3 and equals the number of processCampaign calls
\* that were started and have not yet run their finally block, whatever way they end.
C6_CounterCountsExecutors ==
  /\ 0 <= activeCampaigns /\ activeCampaigns <= maxConcurrentCampaigns
  /\ activeCampaigns = Cardinality(Alive)

\* Three executors are alive after a fourth campaign has ended with status error.
C6_Witness ==
  /\ activeCampaigns = maxConcurrentCampaigns
  /\ \E id \in Ids : exec[id].pc = "done" /\ record[id].status = "error"

\* C9: a campaign that was never stopped and whose main loop handled every
\* recipient ends with status completed, also when its retry queue was not empty.
C9_CompletedAfterRetry ==
  \A id \in Ids :
    (exec[id].pc = "done" /\ Stops(record[id]) = 0
       /\ record[id].sent = Len(record[id].recipients))
      => record[id].status = "completed"

InFlight(id) ==
  CASE exec[id].pc = "batch" ->
         Cardinality({k \in DOMAIN exec[id].results : exec[id].results[k] = Pending})
    [] exec[id].pc \in {"send", "retry"} -> 1
    [] OTHER -> 0

Position(c) ==
  IF c.currentEmail = "" THEN 0
  ELSE CHOOSE k \in 1..Len(c.recipients) : c.recipients[k] = c.currentEmail

\* C11: every change of currentEmail either writes the final sentinel or moves from
\* recipients[k] to recipients[k + 1] (from the initial empty value to recipients[1]),
\* so the values taken are a prefix of recipients, none skipped and none repeated.
C11_CurrentEmailIsPrefix ==
  [][/\ \A id \in Ids :
          record'[id].currentEmail # record[id].currentEmail
            => \/ record'[id].currentEmail = Terminated
               \/ /\ record[id].currentEmail # Terminated
                  /\ \E k \in 1..Len(record[id].recipients) :
                       record'[id].currentEmail = record[id].recipients[k]
                  /\ Position(record'[id]) = Position(record[id]) + 1
     /\ \A id \in DOMAIN record' \ Ids :
          record'[id].currentEmail \in {record'[id].recipients[1], Terminated}]_vars

\* The executor of a campaign of MaxRecipients recipients is sending to the last one.
C11_Witness ==
  \E id \in Ids :
    /\ Len(record[id].recipients) = MaxRecipients
    /\ exec[id].pc = "send"
    /\ record[id].currentEmail = record[id].recipients[MaxRecipients]

\* The log lines of the given kinds that follow the first stop line of a campaign.
LinesAfterStop(c, kinds) ==
  IF Stops(c) = 0 THEN {}
  ELSE LET stop == CHOOSE k \in 1..Len(c.logs) :
                     /\ c.logs[k].kind = "stopped"
                     /\ \A j \in 1..(k - 1) : c.logs[j].kind # "stopped"
       IN {k \in (stop + 1)..Len(c.logs) : c.logs[k].kind \in kinds}

\* C12: once a campaign has been stopped no step of its executor starts a send, and
\* sent grows by at most 1 after the stop.
C12_NoSendStartsAfterStop ==
  /\ [][\A id \in Ids :
          (Stops(record[id]) > 0 /\ exec'[id] # exec[id]) => exec'[id].pc # "send"]_vars
  /\ [](\A id \in Ids : Cardinality(LinesAfterStop(record[id], {"ok", "failed"})) <= 1)

\* C12 as the code has it: once a campaign has been stopped its executor starts no
\* further loop iteration, and the iteration in progress at the stop (its acquire and
\* its send) runs to its end, so sent grows by at most 1 after the stop.
C12_NoIterationStartsAfterStop ==
  \A id \in Ids :
    /\ LinesAfterStop(record[id], {"sending"}) = {}
    /\ Cardinality(LinesAfterStop(record[id], {"ok", "failed"})) <= 1

\* A campaign stopped in the middle of an iteration: the iteration was counted after
\* the stop and the executor ended with recipients left.
C12_Witness ==
  \E id \in Ids :
    /\ exec[id].pc = "done" /\ record[id].status = "stopped"
    /\ Cardinality(LinesAfterStop(record[id], {"ok", "failed"})) = 1
    /\ record[id].sent < Len(record[id].recipients)

\* C13: a stop call on a running campaign leaves it stopped, and no later step (of
\* the executor or any other) changes the status stopped to another value.
C13_StoppedStaysStopped ==
  [][/\ (ret'.op = "stop" /\ ret'.ok) => record'[ret'.id].status = "stopped"
     /\ \A id \in Ids : record[id].status = "stopped" => record'[id].status = "stopped"]_vars

\* A campaign stopped while its send was in flight: the send failed with a retryable
\* error and the executor ended after the stop.
C13_Witness ==
  \E id \in Ids :
    /\ exec[id].pc = "done" /\ record[id].status = "stopped"
    /\ LinesAfterStop(record[id], {"finished"}) # {}
    /\ record[id].retryQueue # <<>>

\* The daily limit a relay is configured with: the submitted value, 500 when none.
configuredLimit(server) ==
  IF server.dailyLimit = NoLimit THEN DefaultDailyLimit ELSE server.dailyLimit

\* C14: the relay an iteration selected (the one its acquire or send is using) had
\* sentCount < dailyLimit when it was selected, whatever dailyLimit was submitted.
C14_SelectedBelowLimit ==
  \A id \in Ids :
    exec[id].pc \in {"verify", "send"}
      => smtpRotation[id][exec[id].server].sentCount
           < configuredLimit(smtpRotation[id][exec[id].server])

\* The failure limit a campaign is configured with: the submitted value, 3 when none.
configuredMaxFailures(c) ==
  IF c.maxFailuresPerServer = 0 THEN DefaultMaxFailures ELSE c.maxFailuresPerServer

\* C15: a relay whose failureCount has reached the campaign's maxFailuresPerServer
\* (3 when the campaign gives none) is not active.
C15_DeactivatedAtMaxFailures ==
  \A id \in Ids : \A k \in 1..Len(smtpRotation[id]) :
    smtpRotation[id][k].isActive
      => smtpRotation[id][k].failureCount < configuredMaxFailures(record[id])

\* The step ran getNextAvailableSMTP for campaign id: the loop pushes one line after
\* every selection, "sending" when a relay was returned and "noserver" when none was.
SelectRan(id) ==
  LET lines(c) == {k \in 1..Len(c.logs) : c.logs[k].kind \in {"sending", "noserver"}}
  IN Cardinality(lines(record'[id])) > Cardinality(lines(record[id]))

\* C16: a step makes a deactivated relay active only if it ran a selection at least
\* 30 minutes after the relay's last failure, and then failureCount is 0; and every
\* selection run at least 30 minutes after the last failure, exactly 30 minutes
\* included, makes the relay active.
C16_ReinstatedAtCooldown ==
  [][\A id \in Ids : \A k \in 1..Len(smtpRotation[id]) :
       LET s == smtpRotation[id][k]
           s2 == smtpRotation'[id][k]
       IN /\ (~s.isActive /\ s2.isActive)
               => /\ SelectRan(id)
                  /\ now - s.lastFailure >= CooldownMin
                  /\ s2.failureCount = 0
          /\ (~s.isActive /\ SelectRan(id) /\ now - s.lastFailure >= CooldownMin)
               => s2.isActive]_vars

\* The candidates of a selection: the relays that are active and below their daily
\* limit (the filter of getNextAvailableSMTP is the subject of C14 and C16).
Candidates(servers) ==
  {k \in 1..Len(servers) : servers[k].isActive /\ servers[k].sentCount < dailyLimitOf(servers[k])}

\* a comes before b in the order (failure_count, sent_count, response_time)
KeyLess(a, b) ==
  \/ a.failureCount < b.failureCount
  \/ a.failureCount = b.failureCount /\ a.sentCount < b.sentCount
  \/ a.failureCount = b.failureCount /\ a.sentCount = b.sentCount
       /\ a.responseTime < b.responseTime

\* k is the candidate of smallest key, the first in list order among equal keys
Best(servers, k) ==
  /\ k \in Candidates(servers)
  /\ \A j \in Candidates(servers) :
       \/ KeyLess(servers[k], servers[j])
       \/ (~KeyLess(servers[j], servers[k]) /\ k <= j)

\* C17: a selection returns the candidate of smallest key (failureCount, sentCount,
\* responseTime), the first of the list among equal keys, and none only when there
\* is no candidate; the relay an iteration is using was selected that way.
C17_SelectsSmallestKey ==
  \A id \in Ids :
    LET g == getNextAvailableSMTP(smtpRotation[id], now) IN
    /\ IF Candidates(g.servers) = {} THEN g.sel = 0 ELSE Best(g.servers, g.sel)
    /\ exec[id].pc \in {"verify", "send"} => Best(smtpRotation[id], exec[id].server)

\* An iteration is using the second relay of the list although the first is a
\* candidate with the same failureCount and sentCount: responseTime decided.
C17_Witness ==
  \E id \in Ids :
    LET servers == smtpRotation[id] IN
    /\ exec[id].pc = "send" /\ exec[id].server = 2
    /\ 1 \in Candidates(servers)
    /\ servers[1].failureCount = servers[2].failureCount
    /\ servers[1].sentCount = servers[2].sentCount
    /\ servers[2].responseTime < servers[1].responseTime

\* The ids of a relay list, in list order.
idsOf(servers) == [k \in 1..Len(servers) |-> servers[k].id]

\* C18: on every tracker state a second selection, made right after a first with
\* nothing in between, returns the same relay (or none again), and the first leaves
\* the order of the relay list as it was.
C18_SelectTwiceSame ==
  \A id \in Ids :
    LET g == getNextAvailableSMTP(smtpRotation[id], now)
        h == getNextAvailableSMTP(g.servers, now)
    IN /\ (g.sel = 0) = (h.sel = 0)
       /\ g.sel # 0 => g.servers[g.sel].id = h.servers[h.sel].id
       /\ idsOf(g.servers) = idsOf(smtpRotation[id])

\* A tracker on which the first selection writes (it reinstates a cooled-down relay)
\* and returns a relay.
C18_Witness ==
  \E id \in Ids :
    LET g == getNextAvailableSMTP(smtpRotation[id], now)
    IN g.sel # 0 /\ g.servers # smtpRotation[id]

\* The cache key whose verify() the executor of campaign id is waiting for.
Verifying(id) == transporterKey(smtpRotation[id][exec[id].server])

\* C19: at most one verification is pending for a cache key: two executors never
\* wait for a verify() of their own on the same key.
C19_SingleFlight ==
  \A id \in Ids : \A other \in Ids :
    (exec[id].pc = "verify" /\ exec[other].pc = "verify" /\ Verifying(id) = Verifying(other))
      => id = other

\* C20: a step moves a campaign to status error only if, in that step, a selection
\* of the campaign found no relay (the loop pushed its "noserver" line).
C20_ErrorOnlyWithoutRelay ==
  [][\A id \in Ids :
       (record[id].status # "error" /\ record'[id].status = "error")
         => \E k \in (Len(record[id].logs) + 1)..Len(record'[id].logs) :
              record'[id].logs[k].kind = "noserver"]_vars

\* C27: once the termination signal has been handled no record has status running
\* (every running campaign was signalled to stop), and no executor starts a send.
C27_ShutdownStopsCampaigns ==
  /\ [](process # "up" => \A id \in campaigns : record[id].status # "running")
  /\ [][\A id \in Ids :
          (process # "up" /\ exec'[id] # exec[id]) => exec'[id].pc # "send"]_vars

\* A submission the claim calls invalid.
Invalid(data) ==
  \/ Len(data.recipients) = 0
  \/ \E k \in 1..Len(data.recipients) : ~emailPattern(data.recipients[k])
  \/ blank(data.subject)
  \/ blank(data.content)

\* C21: the handling of a submission with an empty recipient list, a recipient that
\* does not match the pattern, or a blank subject or content returns an error and
\* leaves the registry, the executors and the counter as they were; every recipient
\* of every record matches the pattern.
C21_InvalidRejectedWhole ==
  /\ [][\A data \in Submissions :
          (Invalid(data) /\ StartCampaign(data))
            => /\ ~ret'.ok
               /\ UNCHANGED <<campaigns, record, exec, smtpRotation, activeCampaigns>>]_vars
  /\ [](\A id \in Ids : \A k \in 1..Len(record[id].recipients) :
          emailPattern(record[id].recipients[k]))

\* An invalid submission was just answered with 400 while a campaign is running.
C21_Witness ==
  /\ ret = Ret("start", 0, FALSE, 400)
  /\ Running # {}

\* The classification the contract states: retryable exactly for a connection
\* timeout, a connection reset, a name that is not found, or a response code in
\* [400, 500).
Retryable(error) ==
  \/ error.code \in {"ETIMEDOUT", "ECONNRESET", "ENOTFOUND"}
  \/ error.responseCode \in 400..499

Queued(id) == Len(record[id].retryQueue)

\* C22: the classifier answers retryable if and only if the error code is ETIMEDOUT,
\* ECONNRESET or ENOTFOUND or the response code r satisfies 400 <= r < 500; every
\* other error, the one without code and response code included, is permanent. A
\* sendMail() that rejects puts its recipient on the retry queue exactly in these cases.
C22_RetryableIff ==
  /\ [](\A outcome \in limits.sendOutcomes :
          ~outcome.ok => (isRetryableError(outcome.error) <=> Retryable(outcome.error)))
  /\ [][\A id \in Ids : \A outcome \in limits.sendOutcomes :
          (~outcome.ok /\ SendDone(id, outcome))
            => Queued(id)' = Queued(id) + (IF Retryable(outcome.error) THEN 1 ELSE 0)]_vars

\* An error without code and response code was recorded and its recipient was not
\* queued, and an error with response code 499 alone was recorded and its recipient
\* was queued.
C22_Witness ==
  \E id \in Ids :
    LET c == record[id] IN
    /\ Len(c.errors) = 2
    /\ c.errors[1].error = [code |-> "", responseCode |-> 0]
    /\ c.errors[2].error = [code |-> "EENVELOPE", responseCode |-> 499]
    /\ c.retryQueue = <<c.errors[2].email>>

\* C23: an error whose code is EAUTH or whose response code is 535 is never
\* classified retryable, whatever its other fields are, and its recipient is never
\* put on the retry queue.
Authentication(error) == error.code = "EAUTH" \/ error.responseCode = 535

C23_AuthNeverRetryable ==
  \A id \in Ids :
    LET c == record[id] IN
    \A k \in 1..Len(c.errors) :
      Authentication(c.errors[k].error)
        => /\ ~isRetryableError(c.errors[k].error)
           /\ \A j \in 1..Len(c.retryQueue) : c.retryQueue[j] # c.errors[k].email
\* The success lines of a log, in log order.
OkLines(c) == SelectSeq(c.logs, LAMBDA line : line.kind = "ok")

\* The call of processCampaign for id has returned, the campaign has one relay, no
\* attempt on it failed and nobody stopped it.
AllSucceeded(id) ==
  /\ exec[id].pc = "done"
  /\ Len(smtpRotation[id]) = 1
  /\ record[id].failed = 0
  /\ Stops(record[id]) = 0

CompletedInOrder(c) ==
  /\ c.status = "completed"
  /\ c.success = Len(c.recipients)
  /\ c.failed = 0
  /\ Len(OkLines(c)) = Len(c.recipients)
  /\ \A k \in 1..Len(c.recipients) : OkLines(c)[k].to = c.recipients[k]

\* C24 as stated: a campaign with one relay on which every send succeeds and which
\* is never stopped ends completed with success = |recipients|, failed = 0 and one
\* success line per recipient in the submitted order.
C24_AllSucceedCompletes ==
  \A id \in Ids : AllSucceeded(id) => CompletedInOrder(record[id])

\* C24, amended: the same, for a relay whose daily limit (500 when none is
\* submitted) is at least the number of recipients.
C24_AllSucceedWithinLimitCompletes ==
  \A id \in Ids :
    (AllSucceeded(id) /\ dailyLimitOf(smtpRotation[id][1]) >= Len(record[id].recipients))
      => CompletedInOrder(record[id])

C24_Witness ==
  \E id \in Ids :
    /\ AllSucceeded(id)
    /\ Len(record[id].recipients) = MaxRecipients
    /\ record[id].success = MaxRecipients
    /\ record[id].status = "completed"
\* C25: for every campaign each of the counters sent, success and failed is
\* non-decreasing over the whole life of the record: no step (executor step, retry
\* pass, stop, cleanup) lowers one of them.
C25_CountersMonotone ==
  [][\A id \in Ids :
       /\ record'[id].sent >= record[id].sent
       /\ record'[id].success >= record[id].success
       /\ record'[id].failed >= record[id].failed]_vars

\* A campaign that counted a success and a failure was stopped, and its executor
\* has returned.
C25_Witness ==
  \E id \in Ids :
    /\ record[id].success >= 1
    /\ record[id].failed >= 1
    /\ Stops(record[id]) >= 1
    /\ exec[id].pc = "done"
\* The records the contract lets gc() delete: completed, stopped or error, and
\* older than 2 hours (the clock counts minutes).
Expired ==
  {id \in campaigns :
     /\ record[id].status \in {"completed", "stopped", "error"}
     /\ now - record[id].startTime > 2 * 60}

\* C26: cleanup deletes exactly the records whose status is completed, stopped or
\* error and whose age exceeds 2 hours; it deletes no running record and no
\* terminal record of 2 hours or less, and no other step deletes a record.
C26_CleanupDeletesExpired ==
  [][/\ Cleanup => campaigns' = campaigns \ Expired
     /\ campaigns \ campaigns' # {} => campaigns \ campaigns' = Expired]_vars

\* A record was deleted.
C26_Witness == Ids \ campaigns # {}
\* The number of entries the queue held when the retry pass of c began, or 0 - 1
\* when no retry pass began.
QueuedAtRetry(c) ==
  LET at == {k \in 1..Len(c.logs) : c.logs[k].kind = "retry"}
  IN IF at = {} THEN 0 - 1 ELSE c.logs[CHOOSE k \in at : TRUE].n

RetrySettles(id) == exec[id].pc = "retry" /\ exec'[id].pc = "retryDelay"

SendSettles(id) == exec[id].pc = "send" /\ record'[id].sent = record[id].sent + 1

\* What a failed send of the main loop leaves behind: one more failure, one more
\* error record for the recipient, a failure marked on the relay that was selected,
\* and the recipient appended to the retry queue exactly when the error is retryable.
FailedSendRecorded(id) ==
  LET c == record[id]
      after == record'[id]
      rcpt == c.recipients[exec[id].i]
      relay == exec[id].server
      last == Len(after.errors)
  IN /\ after.failed = c.failed + 1
     /\ after.success = c.success
     /\ last = Len(c.errors) + 1
     /\ SubSeq(after.errors, 1, last - 1) = c.errors
     /\ after.errors[last].email = rcpt
     /\ after.errors[last].smtp = smtpRotation[id][relay].id
     /\ smtpRotation'[id][relay].failureCount = smtpRotation[id][relay].failureCount + 1
     /\ smtpRotation'[id][relay].lastFailure = now
     /\ \A k \in 1..Len(smtpRotation[id]) :
          k # relay => smtpRotation'[id][k].failureCount = smtpRotation[id][k].failureCount
     /\ after.retryQueue = IF Retryable(after.errors[last].error)
                           THEN Append(c.retryQueue, rcpt) ELSE c.retryQueue

\* C30: in the main loop a recipient is pushed onto the retry queue if and only if
\* its send failed with an error the classifier marks retryable, and then once; a
\* failed send also adds 1 to failed and to sent, appends one error record and marks
\* the failure on the relay that was selected for that send. A send that succeeds,
\* and every other step, leaves the retry queue as it is.
C30_FailedSendBookkeeping ==
  [][\A id \in Ids :
       IF SendSettles(id)
       THEN \/ FailedSendRecorded(id)
            \/ /\ record'[id].success = record[id].success + 1
               /\ record'[id].failed = record[id].failed
               /\ record'[id].errors = record[id].errors
               /\ record'[id].retryQueue = record[id].retryQueue
       ELSE record'[id].retryQueue = record[id].retryQueue]_vars

\* One send failed with a retryable error and was queued, another failed with a
\* permanent error and was not.
C30_Witness ==
  \E id \in Ids :
    LET c == record[id] IN
    /\ c.failed = 2
    /\ c.sent = 2
    /\ Len(c.errors) = 2
    /\ Len(c.retryQueue) = 1
    /\ \E k \in 1..2 : Retryable(c.errors[k].error) /\ c.retryQueue[1] = c.errors[k].email
    /\ \E k \in 1..2 : ~Retryable(c.errors[k].error)
\* The verify() of createTransporter rejects for the relay selected for the
\* recipient of campaign id in this step.
AcquireFails(id) == exec[id].pc = "verify" /\ record'[id].sent = record[id].sent + 1

\* C31: when createTransporter fails for the relay selected for a recipient, the
\* executor marks the failure on that relay, adds 1 to failed and to sent, appends
\* an error record, makes no send for that recipient, does not push the recipient
\* onto the retry queue whatever the error is, and goes on to the pacing delay or
\* the head of the next iteration.
C31_AcquireFailureBookkeeping ==
  [][\A id \in Ids :
       AcquireFails(id)
         => LET c == record[id]
                after == record'[id]
                i == exec[id].i
                relay == exec[id].server
                last == Len(after.errors)
            IN /\ after.failed = c.failed + 1
               /\ after.success = c.success
               /\ last = Len(c.errors) + 1
               /\ SubSeq(after.errors, 1, last - 1) = c.errors
               /\ after.errors[last].email = c.recipients[i]
               /\ smtpRotation'[id][relay].failureCount
                    = smtpRotation[id][relay].failureCount + 1
               /\ smtpRotation'[id][relay].lastFailure = now
               /\ smtpRotation'[id][relay].sentCount = smtpRotation[id][relay].sentCount
               /\ after.retryQueue = c.retryQueue
               /\ Len(OkLines(after)) = Len(OkLines(c))
               /\ transporterPool' = transporterPool
               /\ \/ exec'[id].pc = "delay" /\ exec'[id].i = i
                  \/ exec'[id].pc \in {"verify", "send"} /\ exec'[id].i = i + 1
                  \/ exec'[id].pc = "done"]_vars

\* The acquire for the first recipient failed with a timeout, which the classifier
\* marks retryable; the recipient was not queued and the executor is at the second
\* recipient.
C31_Witness ==
  \E id \in Ids :
    /\ Len(record[id].errors) = 1
    /\ record[id].errors[1].error = ErrTimeout
    /\ record[id].errors[1].email = record[id].recipients[1]
    /\ record[id].retryQueue = <<>>
    /\ record[id].failed = 1
    /\ exec[id].pc = "verify"
    /\ exec[id].i = 2
\* C32: every message is built for the relay the selection returned for that send:
\* while a sendMail() is pending, the from address and the reply address of its
\* message are the user of the relay whose handle it is sent through.
C32_FromIsSelectedRelay ==
  \A id \in Ids :
    exec[id].pc = "send"
      => LET msg == mailOptions(record[id], recipientAt(record[id], exec[id].i))
             relay == smtpRotation[id][exec[id].server]
         IN msg.from = relay.id /\ msg.replyTo = relay.id
\* C33: a rotation submission that gives a non-empty smtpServers list and no
\* smtpServer, with valid recipients, subject and content, is accepted, and a
\* campaign started from a rotation submission runs on the relays of its
\* smtpServers list, also when the list has one element.
C33_RotationListAccepted ==
  /\ [][\A data \in Submissions :
          (/\ data.useSmtpRotation
           /\ data.smtpServer = <<>>
           /\ Len(data.smtpServers) > 0
           /\ ~Invalid(data)
           /\ ~limitReached(activeCampaigns)
           /\ StartCampaign(data))
            => ret'.ok]_vars
  /\ [](\A id \in Ids :
          (record[id].useSmtpRotation /\ Len(record[id].smtpServers) > 0)
            => idsOf(smtpRotation[id]) = idsOf(record[id].smtpServers))
\* The executor of campaign id enters position pc in this step.
Begins(id, pc) == exec'[id].pc = pc /\ (id \notin Ids \/ exec'[id] # exec[id])

\* The cache key of the relay selected for the iteration campaign id is in after
\* this step.
SelectedKey(id) == transporterKey(smtpRotation'[id][exec'[id].server])

\* C34: the transport cache holds a key only after a verification for that key
\* succeeded. A verify() that resolves inserts its key and nothing else; one that
\* rejects leaves the cache unchanged; no step removes a key; a lookup that hits
\* goes on to the send without a verification, and a verification begins only for
\* a key that is not cached.
C34_CacheHoldsVerifiedOnly ==
  [][/\ transporterPool \subseteq transporterPool'
     /\ transporterPool' # transporterPool
          => \E id \in Ids : /\ exec[id].pc = "verify"
                             /\ Begins(id, "send")
                             /\ transporterPool' = transporterPool \cup {SelectedKey(id)}
     /\ \A id \in Ids : AcquireFails(id) => transporterPool' = transporterPool
     /\ \A id \in DOMAIN record' :
          /\ Begins(id, "verify") => SelectedKey(id) \notin transporterPool
          /\ (Begins(id, "send") /\ ~(id \in Ids /\ exec[id].pc = "verify"))
               => SelectedKey(id) \in transporterPool /\ transporterPool' = transporterPool]_vars

\* The acquire for the first recipient failed and left the cache empty, the acquire
\* for the second verified and cached the handle, and the send to the third goes
\* through the cached handle.
C34_Witness ==
  \E id \in Ids :
    /\ Len(record[id].errors) = 1
    /\ record[id].errors[1].error = ErrTimeout
    /\ record[id].errors[1].email = record[id].recipients[1]
    /\ record[id].retryQueue = <<>>
    /\ record[id].success = 1
    /\ exec[id].pc = "send"
    /\ exec[id].i = 3
    /\ transporterPool = {transporterKey(smtpRotation[id][exec[id].server])}
\* The delay lines of a log, in log order.
DelayLines(c) == SelectSeq(c.logs, LAMBDA line : line.kind = "delay")

\* C35: the pacing delay slept between two sends of the main loop is the submitted
\* delay for every submitted value, 0 included, and 5 seconds only when the
\* submission gives none; the executor sleeps only while recipients remain and the
\* status is running.
C35_DelayIsSubmitted ==
  /\ [](\A id \in Ids :
          \A k \in 1..Len(DelayLines(record[id])) :
            DelayLines(record[id])[k].n =
              (IF record[id].delayBetweenEmails = NoDelay
               THEN 5 ELSE record[id].delayBetweenEmails))
  /\ [][\A id \in DOMAIN record' :
          Begins(id, "delay")
            => exec'[id].i < Len(record'[id].recipients) /\ record'[id].status = "running"]_vars
\* Campaign id is touched by this step: its record, its tracker or the position of
\* its executor changes.
Touched(id) ==
  \/ record'[id] # record[id]
  \/ smtpRotation'[id] # smtpRotation[id]
  \/ exec'[id] # exec[id]

\* C36: campaigns are independent of each other: a step that changes something of
\* one campaign (a send or an acquire that settles, a mark, a deactivation, a stop,
\* a submission) changes neither the record (counters, status, log, retry queue)
\* nor the tracker nor the executor of any other campaign, also when both use the
\* same relay and its cached handle.
C36_CampaignsIndependent ==
  [][/\ \A a \in Ids : \A b \in Ids : (a # b /\ Touched(a)) => ~Touched(b)
     /\ DOMAIN record' # Ids => \A b \in Ids : ~Touched(b)]_vars

\* Two campaigns went through the same relay and the same cached handle: the send
\* of one failed, the send of the other succeeded, and each tracker holds its own
\* counts.
C36_Witness ==
  \E a \in Ids : \E b \in Ids :
    /\ a # b
    /\ smtpRotation[a][1].id = smtpRotation[b][1].id
    /\ transporterPool = {transporterKey(smtpRotation[a][1])}
    /\ record[a].failed = 1 /\ record[a].success = 0
    /\ record[b].failed = 0 /\ record[b].success = 1
    /\ smtpRotation[a][1].failureCount = 1 /\ smtpRotation[a][1].sentCount = 0
    /\ smtpRotation[b][1].failureCount = 0 /\ smtpRotation[b][1].sentCount = 1
\* The sendMail() of the main loop of campaign id resolves in this step.
SendSucceeds(id) == SendSettles(id) /\ record'[id].success = record[id].success + 1

\* C37: in every tracker state every relay has failureCount >= 0 and sentCount >= 0
\* and an inactive relay has lastFailure set; a success mark adds exactly 1 to
\* sentCount, lowers a positive failureCount by exactly 1 and leaves a failureCount
\* of 0 and the active flag as they are.
C37_TrackerInvariants ==
  /\ [](\A id \in Ids : \A k \in 1..Len(smtpRotation[id]) :
          LET server == smtpRotation[id][k] IN
          /\ server.failureCount >= 0
          /\ server.sentCount >= 0
          /\ ~server.isActive => server.lastFailure # NoTime)
  /\ [][\A id \in Ids :
          SendSucceeds(id)
            => LET before == smtpRotation[id][exec[id].server]
                   after == smtpRotation'[id][exec[id].server]
               IN /\ after.sentCount = before.sentCount + 1
                  /\ after.failureCount =
                       (IF before.failureCount > 0 THEN before.failureCount - 1 ELSE 0)
                  /\ after.isActive = before.isActive]_vars

\* Two sends through a relay failed and a third succeeded: the relay has one
\* failure left and one message sent.
C37_Witness ==
  \E id \in Ids :
    /\ Len(smtpRotation[id]) = 1
    /\ record[id].failed = 2
    /\ record[id].success = 1
    /\ smtpRotation[id][1].failureCount = 1
    /\ smtpRotation[id][1].sentCount = 1
    /\ smtpRotation[id][1].isActive
\* The executor of campaign id has returned, in a terminal status and with the
\* sentinel in currentEmail.
Finished(id) ==
  /\ id \in Ids
  /\ exec[id].pc = "done"
  /\ record[id].status \in Terminal
  /\ record[id].currentEmail = Terminated

\* C38: when every pending verify() and sendMail() settles and every armed timer
\* fires, every admitted campaign eventually has the status completed, stopped or
\* error, its executor has returned and currentEmail is the sentinel. (A behaviour
\* admits finitely many campaigns, so from some point on every admitted campaign
\* has finished.)
C38_EveryCampaignFinishes == <>[](\A id \in Ids : Finished(id))

\* Two campaigns were admitted and both have finished.
C38_Witness ==
  /\ Cardinality(Ids) = 2
  /\ \A id \in Ids : Finished(id)
  /\ \E id \in Ids : record[id].status = "completed"
  /\ \E id \in Ids : record[id].status = "error"
\* The lines of a log that the main loop writes for a recipient it is done with.
ResultLines(c) == SelectSeq(c.logs, LAMBDA line : line.kind \in {"ok", "failed"})

\* The lines of a log that say the loop was left early.
EarlyExitLines(c) == SelectSeq(c.logs, LAMBDA line : line.kind \in {"noserver", "stopped"})

\* C39: whenever the status of a campaign is completed, its main loop has processed
\* every recipient exactly once (sent = |recipients|, and the success and failure
\* lines of the main loop number |recipients|, one per recipient in order), and the
\* campaign was neither stopped nor left without a relay.
C39_CompletedProcessedAll ==
  \A id \in Ids :
    LET c == record[id] IN
    c.status = "completed"
      => /\ c.sent = Len(c.recipients)
         /\ Len(ResultLines(c)) = Len(c.recipients)
         /\ \A k \in 1..Len(c.recipients) : ResultLines(c)[k].to = c.recipients[k]
         /\ EarlyExitLines(c) = <<>>

\* A campaign of MaxRecipients recipients completed with a success and a failure.
C39_Witness ==
  \E id \in Ids :
    /\ record[id].status = "completed"
    /\ Len(record[id].recipients) = MaxRecipients
    /\ record[id].success >= 1
    /\ record[id].failed >= 1
\* Relay k of the tracker of campaign id is below its daily limit.
BelowLimit(id, k) == smtpRotation[id][k].sentCount < configuredLimit(smtpRotation[id][k])

\* C40: in a campaign in which no send and no acquire has failed, any two relays
\* that are both below their daily limit have sentCount values that differ by at
\* most 1.
C40_EvenSpread ==
  \A id \in Ids :
    record[id].failed = 0
      => \A j \in 1..Len(smtpRotation[id]) : \A k \in 1..Len(smtpRotation[id]) :
           (BelowLimit(id, j) /\ BelowLimit(id, k))
             => smtpRotation[id][j].sentCount - smtpRotation[id][k].sentCount <= 1

\* A rotation over two relays sent MaxRecipients messages without a failure, and
\* both relays carried some of them.
C40_Witness ==
  \E id \in Ids :
    /\ Len(smtpRotation[id]) = 2
    /\ record[id].failed = 0
    /\ record[id].success = MaxRecipients
    /\ BelowLimit(id, 1) /\ BelowLimit(id, 2)
    /\ smtpRotation[id][1].sentCount >= 1
    /\ smtpRotation[id][2].sentCount >= 1
====
